---- MODULE Spec2Model ----
(***************************************************************************)
(* Forecast (GRIB) cache, low-level loaders, route playback controller    *)
(* and route computation of the rcube client, as a state machine.          *)
(*                                                                         *)
(* JavaScript is single threaded: every action below is one run-to-        *)
(* completion slice of a handler, from the place where it is entered (a    *)
(* call, or the resolution of the promise it awaits) to its next await or  *)
(* its end.                                                                *)
(***************************************************************************)
EXTENDS Integers, Sequences, FiniteSets, TLC

(***************************************************************************)
(* Bounds of the model                                                     *)
(***************************************************************************)
\* number of ensureGribLoaded / forceReloadGrib / gribInfo invocations
MaxCalls == 2
\* largest number of points of a route
MaxPts == 3
\* number of computeRouteAndWind invocations
MaxComputes == 1
\* largest number of points of a route the application computes
MaxAppPts == 2

(***************************************************************************)
(* Input domains                                                           *)
(***************************************************************************)
\* the (model, gribName, onlyUV) selections callers ask for: by model alone
\* (the preload at start-up), by model with a file name (after a route
\* computation), and with neither
Selections == {<<"GFS", "", FALSE>>, <<"GFS", "a.grb", TRUE>>, <<"", "", FALSE>>}
\* the (dir, model, gribName) of the two gribInfo call sites: the wind
\* forecast of the model, and the current forecast file of the last route
\* (which is "" before any route)
InfoSelections == {<<"grib", "GFS", "">>, <<"currentgrib", "", "c.grb">>, <<"currentgrib", "", "">>}
\* component headers the server sends in X-Shortnames
Headers == {"uv"}

VARIABLES
  cache,       \* window.gribCache: key, meta (a reference), field, loading
  gribLimits,  \* contents of the module-level meta object of grib.js
  dataGrib,    \* module-level "latest field" of grib.js
  calls,       \* the invocations made so far, each with its position
  ev,          \* the last step taken: what happened, to which call, with what result
  lastOk       \* the last call that loaded successfully, as long as
               \* nothing touched the cache since it returned

gribVars == <<cache, gribLimits, dataGrib, calls, ev, lastOk>>

VARIABLES
  route,       \* player: the attached route (null when none)
  k,           \* player: playback index into route.pts, from 0
  playing,     \* player: Playing (TRUE) or Stopped (FALSE)
  timer,       \* player: handle of the tick interval, 0 for null
  intervals,   \* the intervals setInterval has scheduled and clearInterval has not cancelled
  routeState,  \* windLayer: the route state last published to the renderer
  pev          \* the last player operation: its name and argument, the index
               \* and Playing/Stopped state it started from, whether update()
               \* published to the wind layer and redrew it

playerVars == <<route, k, playing, timer, intervals, routeState, pev>>

VARIABLES
  lastRouteData, \* window.lastRouteData: <<>> for null, else <<the routing response>>
  routeLine,     \* the route polyline on the map: <<>> for null, else <<number of points>>
  comp,          \* the computeRouteAndWind invocations made so far, each with its position
  wl,            \* windLayer: the meta reference and the field handed to windLayer.set
  boat,          \* appState.boat has a position (setStartBoat has run)
  lastFiles,     \* <<window.lastGribFile, window.lastCurrentGribFile>>
  startup        \* the DOMContentLoaded handler: "boot", "preload" (awaiting the
                 \* preload of the forecast) or "ready" (listeners registered)

appVars == <<lastRouteData, routeLine, comp, wl, boat, lastFiles, startup>>

VARIABLES
  probe          \* one call of a function taken alone (of the wind layer, of the
                 \* decoder, redrawAllWaypoints): its arguments, and its result
                 \* once it has run; or whether the user still operates the player

vars == <<cache, gribLimits, dataGrib, calls, ev, lastOk,
          route, k, playing, timer, intervals, routeState, pev,
          lastRouteData, routeLine, comp, wl, boat, lastFiles, startup, probe>>

(***************************************************************************)
(* Values                                                                  *)
(***************************************************************************)
\* the meta object before any metadata response was merged into it: {}
EmptyMeta == [name |-> "", nTimeStamp |-> 0, nLat |-> 0, nLon |-> 0, nShortName |-> 0]

\* metadata payloads the server can answer with (all fields present)
ServerMetas ==
  { [name |-> "a.grb", nTimeStamp |-> 1, nLat |-> 1, nLon |-> 2, nShortName |-> 2],
    [name |-> "b.grb", nTimeStamp |-> 2, nLat |-> 1, nLon |-> 1, nShortName |-> 3] }

NoField    == [kind |-> "null",      id |-> 0, nTime |-> 0, nLat |-> 0, nLon |-> 0, nShortName |-> 0, shortnames |-> "", nValues |-> 0]
UndefField == [kind |-> "undefined", id |-> 0, nTime |-> 0, nLat |-> 0, nLon |-> 0, nShortName |-> 0, shortnames |-> "", nValues |-> 0]
EmptyObj   == [kind |-> "object",    id |-> 0, nTime |-> 0, nLat |-> 0, nLon |-> 0, nShortName |-> 0, shortnames |-> "", nValues |-> 0]

NullKey == <<>>

\* window.gribCache = { key: null, meta: null, field: null, loading: false }
EmptyCache == [key |-> NullKey, meta |-> "null", field |-> NoField, loading |-> FALSE]

\* `${model}/${name}?onlyUV=${onlyUV ? 1 : 0}`
KeyOf(model, name, onlyUV) ==
  <<model, "/", name, "?onlyUV=", IF onlyUV THEN "1" ELSE "0">>

\* shortnamesStr.includes("g"), shortnamesStr.includes("w")
HasG(h) == h \in {"uvg", "uvgw"}
HasW(h) == h \in {"uvw", "uvgw"}

\* let nShortName = 2; if (hasG) nShortName++; if (hasW) nShortName++;
ComponentCount(h) == 2 + (IF HasG(h) THEN 1 ELSE 0) + (IF HasW(h) THEN 1 ELSE 0)

\* largest buffer length the server answers with
MaxBuf == 7

\* what the cache holds, by content: the key, the meta reference and the
\* contents of the object it refers to, and the field
ViewOf(c, limits) ==
  [key   |-> c.key,
   mref  |-> c.meta,
   meta  |-> IF c.meta = "gribLimits" THEN limits ELSE EmptyMeta,
   field |-> c.field]

CacheView == ViewOf(cache, gribLimits)

\* an invocation that has not started, or has ended
NoCall ==
  [op |-> "", model |-> "", name |-> "", onlyUV |-> FALSE, pc |-> "done",
   nT |-> 0, nLat |-> 0, nLon |-> 0, field |-> NoField,
   before |-> ViewOf(EmptyCache, EmptyMeta), alone |-> TRUE]

Ids == 1..Len(calls)

\* a new invocation; alone records that no other invocation is under way
NewCall(op, model, name, onlyUV, pc) ==
  [NoCall EXCEPT !.op = op, !.model = model, !.name = name, !.onlyUV = onlyUV,
                 !.pc = pc, !.before = CacheView,
                 !.alone = \A j \in Ids : calls[j].pc = "done"]

\* the invocations under way are no longer alone once another one starts
Joined == [j \in Ids |-> [calls[j] EXCEPT !.alone = FALSE]]

\* a load is in flight from the moment ensureGribLoaded set the loading flag
\* until its finally block ran
InFlight(i) == calls[i].op \in {"ensure", "force"} /\ calls[i].pc # "done"

\* the requests of a load are in flight while it awaits one of its responses
Fetching(i) == calls[i].pc \in {"metaFetch", "metaJson", "binFetch", "binBody"}

NoOk == [valid |-> FALSE, op |-> "", model |-> "", name |-> "", onlyUV |-> FALSE,
         meta |-> "null", field |-> NoField]

\* the last step: op is the function it belongs to, c the invocation (as it
\* was before the step), retMeta and retField what the function returned
Event(what, id, op, c, retMeta, retField) ==
  [what |-> what, id |-> id, op |-> op,
   model |-> c.model, name |-> c.name, onlyUV |-> c.onlyUV,
   retMeta |-> retMeta, retField |-> retField, prior |-> lastOk]

Step(what, id, c) == Event(what, id, c.op, c, "null", NoField)

\* lastOk survives a step only if the step left the cache alone
KeepOk ==
  lastOk' = IF cache' = cache /\ gribLimits' = gribLimits THEN lastOk ELSE NoOk

\* let route = null
NoRoute == [null |-> TRUE, t0Epoch |-> 0, dtRoute |-> 0, pts |-> <<>>,
            gribName |-> "", currentGrib |-> ""]

\* let routeState = null
NoRouteState == [null |-> TRUE, t0Epoch |-> 0, dtRoute |-> 0, k |-> 0]

InitGrib ==
  /\ cache = EmptyCache
  /\ gribLimits = EmptyMeta
  /\ dataGrib = EmptyObj
  /\ calls = <<>>
  /\ ev = [what |-> "init", id |-> 0, op |-> "", model |-> "", name |-> "",
           onlyUV |-> FALSE, retMeta |-> "null", retField |-> NoField,
           prior |-> NoOk]
  /\ lastOk = NoOk

\* let timer = null; let playing = false; let route = null; let k = 0
InitPlayer ==
  /\ route = NoRoute
  /\ k = 0
  /\ playing = FALSE
  /\ timer = 0
  /\ intervals = {}
  /\ routeState = NoRouteState
  /\ pev = [op |-> "init", arg |-> 0, k0 |-> 0, was |-> FALSE, pub |-> FALSE, err |-> FALSE]

\* window.lastRouteData = null; let routeLine = null; the wind layer starts
\* with let gribLimits = null; let dataGrib = null
InitApp ==
  /\ lastRouteData = <<>>
  /\ routeLine = <<>>
  /\ comp = <<>>
  /\ wl = [meta |-> "null", field |-> NoField]
  /\ boat = FALSE
  /\ lastFiles = <<"", "">>
  /\ startup = "boot"

\* no function is taken alone
NoProbe == [fn |-> "none"]

Init == InitGrib /\ InitPlayer /\ InitApp /\ probe = NoProbe

(***************************************************************************)
(* ensureGribLoaded, up to its first await                                 *)
(***************************************************************************)
\* ensureGribLoaded without its loading guard
EarlyReturnNever(c) == FALSE

\* if (cache.loading) return { meta: cache.meta, field: cache.field }
EarlyReturn(c) == c.loading

\* cache.key === wantedKey && cache.meta && cache.field && cache.field.getUVGW
CacheHit(c, wantedKey) ==
  /\ c.key = wantedKey
  /\ c.meta \notin {"null", "undefined"}
  /\ c.field.kind = "field"

\* the part of ensureGribLoaded(model, name, onlyUV) that runs synchronously,
\* on the cache value c (forceReloadGrib runs it on the cache it has cleared)
EnsureSync(op, c, model, name, onlyUV) ==
  LET id == Len(calls) + 1
      wantedKey == KeyOf(model, name, onlyUV)
      call == NewCall(op, model, name, onlyUV, "done")
  IN
  IF EarlyReturn(c)
  THEN /\ cache' = c
       /\ calls' = Append(calls, NoCall)
       /\ ev' = Event("early", id, op, call, c.meta, c.field)
  ELSE IF CacheHit(c, wantedKey)
  THEN /\ cache' = c
       /\ calls' = Append(calls, NoCall)
       /\ ev' = Event("hit", id, op, call, c.meta, c.field)
  ELSE /\ cache' = [c EXCEPT !.loading = TRUE]
       /\ IF model = "" /\ name = ""
          THEN \* gribMetaAndLoad returns false without any request
               /\ calls' = Append(Joined, [call EXCEPT !.pc = "falseResume"])
               /\ ev' = Event("noRequest", id, op, call, "null", NoField)
          ELSE /\ calls' = Append(Joined, [call EXCEPT !.pc = "metaFetch"])
               /\ ev' = Event("metaReq", id, op, call, "null", NoField)

ensureGribLoaded(model, name, onlyUV) ==
  /\ Len(calls) < MaxCalls
  /\ EnsureSync("ensure", cache, model, name, onlyUV)
  /\ UNCHANGED <<gribLimits, dataGrib>>
  /\ KeepOk
  /\ UNCHANGED <<playerVars, appVars, probe>>

\* forceReloadGrib that forgets to clear the cache
ForceClearKeeps(c) == c

\* cache.key = null; cache.meta = null; cache.field = null; cache.loading = false
ForceClear(c) == EmptyCache

forceReloadGrib(model, name, onlyUV) ==
  /\ Len(calls) < MaxCalls
  /\ EnsureSync("force", ForceClear(cache), model, name, onlyUV)
  /\ UNCHANGED <<gribLimits, dataGrib>>
  /\ KeepOk
  /\ UNCHANGED <<playerVars, appVars, probe>>

(***************************************************************************)
(* gribInfo: metadata only (load = false)                                  *)
(***************************************************************************)
gribInfo(dir, model, name) ==
  /\ Len(calls) < MaxCalls
  /\ LET id == Len(calls) + 1
         call == NewCall("info", model, name, FALSE, "done")
     IN IF model = "" /\ name = ""
        THEN \* "No grib" warning, no request
             /\ calls' = Append(calls, NoCall)
             /\ ev' = Step("noGrib", id, call)
        ELSE /\ calls' = Append(Joined, [call EXCEPT !.pc = "metaFetch"])
             /\ ev' = Step("metaReq", id, call)
  /\ UNCHANGED <<cache, gribLimits, dataGrib>>
  /\ KeepOk
  /\ UNCHANGED <<playerVars, appVars, probe>>

(***************************************************************************)
(* gribMetaAndLoad and gribLoad, one action per resolved await             *)
(***************************************************************************)
\* Object.assign(target, src) on objects with the same fields
ObjectAssign(target, src) ==
  [f \in DOMAIN target |-> IF f \in DOMAIN src THEN src[f] ELSE target[f]]

\* a loader that carries on with the binary request after a failure
ThrownCarriesOn(c) == [c EXCEPT !.pc = "binFetch"]

\* what a call turns into when gribMetaAndLoad throws: ensureGribLoaded still
\* has its finally block to run, gribInfo just ends
Thrown(c) == IF c.op = "info" THEN NoCall ELSE [c EXCEPT !.pc = "rejected", !.field = NoField]

\* await fetch(REQ.GRIB) resolved; ok is response.ok
MetaFetchResponse(i, ok) ==
  /\ calls[i].pc = "metaFetch"
  /\ IF ok
     THEN /\ calls' = [calls EXCEPT ![i].pc = "metaJson"]
          /\ ev' = Step("metaResp", i, calls[i])
     ELSE /\ calls' = [calls EXCEPT ![i] = Thrown(@)]
          /\ ev' = Step("metaHttpError", i, calls[i])
  /\ UNCHANGED <<cache, gribLimits, dataGrib>>
  /\ KeepOk
  /\ UNCHANGED <<playerVars, appVars, probe>>

\* the JSON bodies a metadata response can carry: an object with _Error, an
\* empty object, or a metadata payload
MetaBodies ==
  {[err |-> e, data |-> EmptyMeta] : e \in {"_Error", "empty"}}
    \cup {[err |-> "", data |-> m] : m \in ServerMetas}

\* await response.json() resolved with body
MetaJsonResponse(i, body) ==
  /\ calls[i].pc = "metaJson"
  /\ IF body.err # ""
     THEN /\ calls' = [calls EXCEPT ![i] = Thrown(@)]
          /\ ev' = Step(IF body.err = "_Error" THEN "metaServerError" ELSE "metaEmpty", i, calls[i])
          /\ UNCHANGED gribLimits
     ELSE /\ gribLimits' = ObjectAssign(gribLimits, body.data)
          /\ IF calls[i].op = "info"
             THEN \* load = false: return { meta: gribLimits, field: dataGrib }
                  /\ calls' = [calls EXCEPT ![i] = NoCall]
                  /\ ev' = Event("infoDone", i, "info", calls[i], "gribLimits", dataGrib)
             ELSE \* gribLoad(dir, model, gribName, data.nTimeStamp, data.nLat, data.nLon, ...)
                  /\ calls' = [calls EXCEPT ![i].pc = "binFetch",
                                            ![i].nT = body.data.nTimeStamp,
                                            ![i].nLat = body.data.nLat,
                                            ![i].nLon = body.data.nLon]
                  /\ ev' = Step("binReq", i, calls[i])
  /\ UNCHANGED <<cache, dataGrib>>
  /\ KeepOk
  /\ UNCHANGED <<playerVars, appVars, probe>>

\* await fetch(REQ.GRIB_DUMP) resolved: "http" (not ok), "noHeader", or the
\* X-Shortnames header
BinFetchResponse(i, r) ==
  /\ calls[i].pc = "binFetch"
  /\ IF r \in {"http", "noHeader"}
     THEN /\ calls' = [calls EXCEPT ![i] = Thrown(@)]
          /\ ev' = Step(IF r = "http" THEN "binHttpError" ELSE "binNoHeader", i, calls[i])
     ELSE /\ calls' = [calls EXCEPT ![i].pc = "binBody",
                                    ![i].field = [NoField EXCEPT !.shortnames = r]]
          /\ ev' = Step("binResp", i, calls[i])
  /\ UNCHANGED <<cache, gribLimits, dataGrib>>
  /\ KeepOk
  /\ UNCHANGED <<playerVars, appVars, probe>>

\* const expected = nTime * nLat * nLon * nShortName
Expected(nTime, nLat, nLon, nShortName) == nTime * nLat * nLon * nShortName

\* mutation of SizeOk: a buffer longer than expected is accepted
SizeOkAtLeast(len, expected) == len >= expected

\* if (values.length !== expected) throw
SizeOk(len, expected) == len = expected

\* await res.arrayBuffer() resolved with len float values
BinBodyResponse(i, len) ==
  /\ calls[i].pc = "binBody"
  /\ LET c == calls[i]
         n == ComponentCount(c.field.shortnames)
     IN IF SizeOk(len, Expected(c.nT, c.nLat, c.nLon, n))
        THEN /\ calls' = [calls EXCEPT ![i].pc = "decoded",
                            ![i].field = [kind |-> "field", id |-> i,
                                          nTime |-> c.nT, nLat |-> c.nLat, nLon |-> c.nLon,
                                          nShortName |-> n,
                                          shortnames |-> c.field.shortnames,
                                          nValues |-> len]]
             /\ ev' = Step("decoded", i, c)
        ELSE /\ calls' = [calls EXCEPT ![i] = Thrown(@)]
             /\ ev' = Step("binSizeError", i, c)
  /\ UNCHANGED <<cache, gribLimits, dataGrib>>
  /\ KeepOk
  /\ UNCHANGED <<playerVars, appVars, probe>>

\* await gribLoad(...) resolved inside gribMetaAndLoad:
\* dataGrib = field; return { meta: gribLimits, field: dataGrib }
MetaAndLoadReturn(i) ==
  /\ calls[i].pc = "decoded"
  /\ dataGrib' = calls[i].field
  /\ calls' = [calls EXCEPT ![i].pc = "resume"]
  /\ ev' = Step("loaded", i, calls[i])
  /\ UNCHANGED <<cache, gribLimits>>
  /\ KeepOk
  /\ UNCHANGED <<playerVars, appVars, probe>>

(***************************************************************************)
(* ensureGribLoaded after await gribMetaAndLoad(...)                       *)
(***************************************************************************)
\* const realName = (meta && meta.name) ? meta.name : (gribNameOptional || "")
RealName(metaRef, name) ==
  IF metaRef = "gribLimits" /\ gribLimits.name # "" THEN gribLimits.name ELSE name

\* a commit with a generation guard: a load that started before the one whose
\* field is cached does not overwrite it
CommitGuarded(c, metaRef, field) ==
  IF cache.field.kind = "field" /\ cache.field.id > field.id
  THEN [cache EXCEPT !.loading = FALSE]
  ELSE [key |-> KeyOf(c.model, RealName(metaRef, c.name), c.onlyUV),
        meta |-> metaRef, field |-> field, loading |-> FALSE]

\* cache.key = ...; cache.meta = meta; cache.field = field; finally loading = false
Commit(c, metaRef, field) ==
  [key |-> KeyOf(c.model, RealName(metaRef, c.name), c.onlyUV),
   meta |-> metaRef, field |-> field, loading |-> FALSE]

\* the await resolved with { meta, field }
EnsureCommit(i) ==
  /\ calls[i].pc = "resume"
  /\ cache' = Commit(calls[i], "gribLimits", calls[i].field)
  /\ calls' = [calls EXCEPT ![i] = NoCall]
  /\ ev' = Event("commit", i, calls[i].op, calls[i], "gribLimits", calls[i].field)
  /\ lastOk' = [valid |-> TRUE, op |-> calls[i].op, model |-> calls[i].model, name |-> calls[i].name,
                onlyUV |-> calls[i].onlyUV, meta |-> "gribLimits",
                field |-> calls[i].field]
  /\ UNCHANGED <<gribLimits, dataGrib>>
  /\ UNCHANGED <<playerVars, appVars, probe>>

\* the await resolved with false: const { meta, field } = false
EnsureCommitFalse(i) ==
  /\ calls[i].pc = "falseResume"
  /\ cache' = Commit(calls[i], "undefined", UndefField)
  /\ calls' = [calls EXCEPT ![i] = NoCall]
  /\ ev' = Event("commitFalse", i, calls[i].op, calls[i], "undefined", UndefField)
  /\ UNCHANGED <<gribLimits, dataGrib>>
  /\ lastOk' = NoOk
  /\ UNCHANGED <<playerVars, appVars, probe>>

\* a try without finally
FinallyMissing(c) == c

\* what the finally block leaves of the cache when the await threw
FinallyOnThrow(c) == [c EXCEPT !.loading = FALSE]

\* the await threw: only the finally block runs
EnsureThrow(i) ==
  /\ calls[i].pc = "rejected"
  /\ cache' = FinallyOnThrow(cache)
  /\ calls' = [calls EXCEPT ![i] = NoCall]
  /\ ev' = Step("threw", i, calls[i])
  /\ UNCHANGED <<gribLimits, dataGrib>>
  /\ KeepOk
  /\ UNCHANGED <<playerVars, appVars, probe>>

NextGrib ==
  \/ \E a \in Selections : ensureGribLoaded(a[1], a[2], a[3])
  \/ \E a \in Selections : forceReloadGrib(a[1], a[2], a[3])
  \/ \E a \in InfoSelections : gribInfo(a[1], a[2], a[3])
  \/ \E i \in Ids, ok \in BOOLEAN : MetaFetchResponse(i, ok)
  \/ \E i \in Ids, b \in MetaBodies : MetaJsonResponse(i, b)
  \/ \E i \in Ids, r \in {"http", "noHeader"} \cup Headers : BinFetchResponse(i, r)
  \/ \E i \in Ids, len \in 0..MaxBuf : BinBodyResponse(i, len)
  \/ \E i \in Ids : MetaAndLoadReturn(i)
  \/ \E i \in Ids : EnsureCommit(i)
  \/ \E i \in Ids : EnsureCommitFalse(i)
  \/ \E i \in Ids : EnsureThrow(i)

SpecGrib == Init /\ [][NextGrib]_vars

(***************************************************************************)
(* Route responses and parseRouteResponse                                  *)
(***************************************************************************)
\* the start epoch (r.epochStart) of the route of n points the server
\* answers with: different routes start at different times
T0(n) == 1000 * n

\* a track of n rows: row[3], the time offset of each row, for a time step dt
Track(n, dt) == [i \in 1..n |-> (i - 1) * dt]

\* an entry of the response object: track is <<>> when the entry has no track
\* array or an empty one
Entry(n, t0, finite) ==
  [track |-> Track(n, 10), epochStart |-> t0, isocTimeStep |-> 10, finite |-> finite,
   grib |-> "a.grb", currentGrib |-> ""]

\* the bodies a routing response can carry
RouteJsons ==
  {[isObject |-> FALSE, error |-> FALSE, entries |-> <<>>],
   [isObject |-> TRUE, error |-> TRUE, entries |-> <<Entry(2, T0(2), TRUE)>>],
   [isObject |-> TRUE, error |-> FALSE, entries |-> <<>>],
   [isObject |-> TRUE, error |-> FALSE, entries |-> <<Entry(0, T0(1), TRUE)>>],
   [isObject |-> TRUE, error |-> FALSE, entries |-> <<Entry(2, T0(2), FALSE)>>]}
  \cup {[isObject |-> TRUE, error |-> FALSE, entries |-> <<Entry(n, T0(n), TRUE)>>] :
          n \in 1..MaxPts}
  \cup {[isObject |-> TRUE, error |-> FALSE,
         entries |-> <<Entry(0, T0(1), TRUE), Entry(1, T0(1), TRUE)>>]}

\* the first entry with a non-empty track, 0 when there is none
FoundKey(json) ==
  LET with == {i \in 1..Len(json.entries) : Len(json.entries[i].track) > 0}
  IN IF with = {} THEN 0 ELSE CHOOSE i \in with : \A j \in with : i <= j

\* mutation of parseRouteResponse: epochStart and isocTimeStep are not checked
parseRouteResponseUnchecked(json) ==
  IF ~json.isObject \/ json.error \/ FoundKey(json) = 0
  THEN [ok |-> FALSE, route |-> NoRoute]
  ELSE LET r == json.entries[FoundKey(json)]
       IN [ok |-> TRUE,
           route |-> [null |-> FALSE, t0Epoch |-> r.epochStart,
                      dtRoute |-> r.isocTimeStep,
                      pts |-> [i \in 1..Len(r.track) |-> r.epochStart + r.track[i]],
                      gribName |-> r.grib, currentGrib |-> r.currentGrib]]

\* parseRouteResponse(json): ok is FALSE when it throws
parseRouteResponse(json) ==
  IF ~json.isObject \/ json.error \/ FoundKey(json) = 0
  THEN [ok |-> FALSE, route |-> NoRoute]
  ELSE LET r == json.entries[FoundKey(json)]
       IN IF ~r.finite
          THEN [ok |-> FALSE, route |-> NoRoute]
          ELSE [ok |-> TRUE,
                route |-> [null |-> FALSE, t0Epoch |-> r.epochStart,
                           dtRoute |-> r.isocTimeStep,
                           pts |-> [i \in 1..Len(r.track) |-> r.epochStart + r.track[i]],
                           gribName |-> r.grib, currentGrib |-> r.currentGrib]]

\* the routes computeRouteAndWind hands to player.setRoute
ParsedRoutes == {parseRouteResponse(j).route : j \in {x \in RouteJsons : parseRouteResponse(x).ok}}

(***************************************************************************)
(* Player                                                                  *)
(***************************************************************************)
Max(a, b) == IF a >= b THEN a ELSE b
Min(a, b) == IF a <= b THEN a ELSE b

\* a clamp without its upper limit
ClampIndexBelowOnly(r, x) == Max(0, x)

\* a clamp without its lower limit
ClampIndexAboveOnly(r, x) == Min(Len(r.pts) - 1, x)

\* Math.max(0, Math.min(route.pts.length - 1, x))
ClampIndex(r, x) == Max(0, Min(Len(r.pts) - 1, x))

\* an update() that leaves the wind layer's route state as it was
PublishedNothing(r, kk) == routeState

\* update(): publishes { t0Epoch, dtRoute, k } of route r and index kk to the
\* wind layer (and redraws); nothing when no route is attached
Published(r, kk) ==
  IF r.null THEN routeState
  ELSE [null |-> FALSE, t0Epoch |-> r.t0Epoch, dtRoute |-> r.dtRoute, k |-> kk]

\* getFirstBoatData(lastRouteData): the value of the first key of the stored
\* response when it is an object, else null
getFirstBoatData(d) ==
  IF d = <<>> THEN "null"
  ELSE IF Len(d[1].entries) = 0 THEN "null" ELSE "object"

\* an update() whose status line always throws
UpdateThrowsAlways(d) == TRUE

\* update() ends with a TypeError when it builds the status line (of a page
\* that has a "status" element) from a null boat (boat.wavePolar): after it
\* has published and redrawn, before syncSlider
UpdateThrows(d) == getFirstBoatData(d) = "null"

\* the record of a player operation entered in the current state; pub tells
\* whether it ran update() with a route attached
PEv(op, arg, pub) ==
  [op |-> op, arg |-> arg, k0 |-> k, was |-> playing, pub |-> pub,
   err |-> pub /\ UpdateThrows(lastRouteData)]

\* a stop() that leaves the interval running
StopKeepsInterval ==
  /\ playing' = FALSE
  /\ timer' = 0
  /\ UNCHANGED intervals

\* stop(): playing = false; if (timer) clearInterval(timer); timer = null
Stop ==
  /\ playing' = FALSE
  /\ intervals' = intervals \ {timer}
  /\ timer' = 0

\* the handle setInterval returns: a positive number no live interval has
NewInterval == CHOOSE id \in 1..(Cardinality(intervals) + 1) : id \notin intervals

\* a play() without its guard
PlayUnguarded ==
  /\ playing' = TRUE
  /\ timer' = NewInterval
  /\ intervals' = intervals \cup {NewInterval}

\* play(): if (!route || playing) return; playing = true; timer = setInterval(tick, stepMs)
Play ==
  IF route.null \/ playing
  THEN UNCHANGED <<playing, timer, intervals>>
  ELSE /\ playing' = TRUE
       /\ timer' = NewInterval
       /\ intervals' = intervals \cup {NewInterval}

\* setRoute(r) on the player's variables, with d the value window.lastRouteData
\* has when it runs
setRouteWith(r, d) ==
  /\ route' = r
  /\ k' = 0
  /\ routeState' = Published(r, 0)
  /\ pev' = [PEv("setRoute", 0, ~r.null) EXCEPT !.err = ~r.null /\ UpdateThrows(d)]
  /\ UNCHANGED <<playing, timer, intervals>>

setRoute(r) ==
  /\ setRouteWith(r, lastRouteData)
  /\ UNCHANGED <<gribVars, appVars, probe>>

setIndex(newK) ==
  /\ IF route.null
     THEN UNCHANGED <<k, routeState>>
     ELSE /\ k' = ClampIndex(route, newK)
          /\ routeState' = Published(route, k')
  /\ pev' = PEv("setIndex", newK, ~route.null)
  /\ UNCHANGED <<route, playing, timer, intervals>>
  /\ UNCHANGED <<gribVars, appVars, probe>>

\* gotoBeg() on the player's variables
gotoBegPlayer ==
  /\ IF route.null
     THEN UNCHANGED <<k, routeState, playing, timer, intervals>>
     ELSE /\ k' = 0
          /\ Stop
          /\ routeState' = Published(route, k')
  /\ pev' = PEv("gotoBeg", 0, ~route.null)
  /\ UNCHANGED route

gotoBeg ==
  /\ gotoBegPlayer
  /\ UNCHANGED <<gribVars, appVars, probe>>

gotoEnd ==
  /\ IF route.null
     THEN UNCHANGED <<k, routeState, playing, timer, intervals>>
     ELSE /\ k' = Len(route.pts) - 1
          /\ Stop
          /\ routeState' = Published(route, k')
  /\ pev' = PEv("gotoEnd", 0, ~route.null)
  /\ UNCHANGED route
  /\ UNCHANGED <<gribVars, appVars, probe>>

step(dir) ==
  /\ IF route.null
     THEN UNCHANGED <<k, routeState>>
     ELSE /\ k' = ClampIndex(route, k + dir)
          /\ routeState' = Published(route, k')
  /\ pev' = PEv("step", dir, ~route.null)
  /\ UNCHANGED <<route, playing, timer, intervals>>
  /\ UNCHANGED <<gribVars, appVars, probe>>

\* a tick that never finds the end of the route
AtEndNever(r, kk) == FALSE

\* a tick that stops one point before the end
AtEndEarly(r, kk) == kk >= Len(r.pts) - 2

\* if (k >= route.pts.length - 1) return stop()
AtEnd(r, kk) == kk >= Len(r.pts) - 1

\* the interval id fires: tick()
tick(id) ==
  /\ id \in intervals
  /\ IF route.null \/ AtEnd(route, k)
     THEN /\ Stop
          /\ UNCHANGED <<k, routeState>>
     ELSE /\ k' = k + 1
          /\ routeState' = Published(route, k')
          /\ UNCHANGED <<playing, timer, intervals>>
  /\ pev' = PEv("tick", id, ~(route.null \/ AtEnd(route, k)))
  /\ UNCHANGED route
  /\ UNCHANGED <<gribVars, appVars, probe>>

\* play() on its own: what togglePlay runs from Stopped
play ==
  /\ Play
  /\ pev' = PEv("play", 0, FALSE)
  /\ UNCHANGED <<route, k, routeState>>
  /\ UNCHANGED <<gribVars, appVars, probe>>

togglePlay ==
  /\ IF playing THEN Stop ELSE Play
  /\ pev' = PEv("togglePlay", 0, FALSE)
  /\ UNCHANGED <<route, k, routeState>>
  /\ UNCHANGED <<gribVars, appVars, probe>>

\* a reset() that keeps the index
resetPlayerKeepsIndex ==
  /\ Stop
  /\ route' = NoRoute
  /\ pev' = PEv("reset", 0, FALSE)
  /\ UNCHANGED k

\* reset() on the player's variables
resetPlayer ==
  /\ Stop
  /\ route' = NoRoute
  /\ k' = 0
  /\ pev' = PEv("reset", 0, FALSE)

reset ==
  /\ resetPlayer
  /\ UNCHANGED routeState
  /\ UNCHANGED <<gribVars, appVars, probe>>

\* the indices setIndex is called with: in range, below and above
IndexArgs == (0 - 1)..MaxPts

NextPlayer ==
  \/ \E r \in ParsedRoutes : setRoute(r)
  \/ \E i \in IndexArgs : setIndex(i)
  \/ gotoBeg
  \/ gotoEnd
  \/ \E dir \in {0 - 1, 1} : step(dir)
  \/ \E id \in intervals : tick(id)
  \/ play
  \/ togglePlay
  \/ reset

SpecPlayer == Init /\ [][NextPlayer]_vars

(***************************************************************************)
(* The application: start-up, map taps, route computation, playback        *)
(***************************************************************************)
\* what the application passes as model and onlyUV: appState.model and
\* appState.onlyUV
AppModel == "GFS"
AppOnlyUV == TRUE

\* the events with which an ensureGribLoaded / forceReloadGrib call ends
Completions == {"early", "hit", "commit", "commitFalse", "threw"}

\* call id has just ended: the continuation of whoever awaits it is the next
\* thing to run, before any other handler
Ended(id) == ev.id = id /\ ev.what \in Completions

NoCompute == [pc |-> "done", route |-> NoRoute, call |-> 0]

\* a continuation is due
Resumable ==
  \/ startup = "preload" /\ Ended(1)
  \/ \E c \in 1..Len(comp) : comp[c].pc = "gribWait" /\ Ended(comp[c].call)

\* DOMContentLoaded, up to await ensureGribLoaded(appState.model, "", appState.onlyUV)
startPreload ==
  /\ startup = "boot"
  /\ startup' = "preload"
  /\ EnsureSync("ensure", cache, AppModel, "", AppOnlyUV)
  /\ UNCHANGED <<gribLimits, dataGrib>>
  /\ KeepOk
  /\ UNCHANGED <<lastRouteData, routeLine, comp, wl, boat, probe, lastFiles>>
  /\ UNCHANGED playerVars

\* the preload has ended, with or without an error: the handler goes on and
\* registers the listeners of the buttons and of the slider
preloadDone ==
  /\ startup = "preload" /\ Ended(1)
  /\ startup' = "ready"
  /\ UNCHANGED <<lastRouteData, routeLine, comp, wl, boat, probe, lastFiles>>
  /\ UNCHANGED <<gribVars, playerVars>>

\* a clearing that forgets the stored response and the wind layer
ClearRouteOnly ==
  /\ routeLine' = <<>>
  /\ resetPlayer
  /\ UNCHANGED <<routeState, lastRouteData>>

\* clearRoute(); player.reset(); windLayer.setRouteState(null);
\* lastRouteData = null: the part setStartBoat and clearWaypoints share
ClearRouteState ==
  /\ routeLine' = <<>>
  /\ resetPlayer
  /\ routeState' = NoRouteState
  /\ lastRouteData' = <<>>

\* a tap on the map in "boat" mode
setStartBoat ==
  /\ ~Resumable
  /\ boat' = TRUE
  /\ ClearRouteState
  /\ UNCHANGED <<comp, wl, startup, probe, lastFiles>>
  /\ UNCHANGED gribVars

\* click on Clear; the waypoint list it empties (appState.waypoints) is not
\* kept: adding a waypoint changes nothing else here, so whether the list
\* holds a waypoint is an input of btnCompute
clearWaypoints ==
  /\ ~Resumable
  /\ startup = "ready"
  /\ ClearRouteState
  /\ UNCHANGED <<comp, wl, boat, startup, probe, lastFiles>>
  /\ UNCHANGED gribVars

\* click on Compute; v tells whether the start time field has a value, w
\* whether appState.waypoints holds a waypoint
btnCompute(v, w) ==
  /\ ~Resumable
  /\ startup = "ready"
  /\ Len(comp) < MaxComputes
  /\ IF ~v \/ ~boat \/ ~w
     THEN \* a warning is shown
          UNCHANGED <<playerVars, comp>>
     ELSE /\ gotoBegPlayer
          /\ comp' = IF pev'.err
                     THEN \* gotoBeg threw: "Compute error"
                          Append(comp, NoCompute)
                     ELSE \* computeRouteAndWind, up to await fetch(apiUrl, ...)
                          Append(comp, [NoCompute EXCEPT !.pc = "routeFetch"])
  /\ UNCHANGED <<lastRouteData, routeLine, wl, boat, startup, probe, lastFiles>>
  /\ UNCHANGED gribVars

\* await fetch(apiUrl, ...) resolved; ok is res.ok
RouteFetchResponse(c, ok) ==
  /\ ~Resumable
  /\ comp[c].pc = "routeFetch"
  /\ comp' = [comp EXCEPT ![c].pc = IF ok THEN "routeJson" ELSE "done"]
  /\ UNCHANGED <<lastRouteData, routeLine, wl, boat, startup, probe, lastFiles>>
  /\ UNCHANGED <<gribVars, playerVars>>

\* cache.key.split("/").slice(1).join("/").split("?")[0]: the file name of
\* the key, "" for no key
CachedName(c) == IF c.key = NullKey THEN "" ELSE c.key[3]

\* mutation of NeedReload: the names are compared even when one is empty
NeedReloadOnAnyDifference(c, routeGribName) == CachedName(c) # routeGribName

\* routeGribName && cachedName && (cachedName !== routeGribName)
NeedReload(c, routeGribName) ==
  routeGribName # "" /\ CachedName(c) # "" /\ CachedName(c) # routeGribName

\* await res.json() resolved with json: parse it, store it, draw the route,
\* attach it to the player, then call forceReloadGrib or ensureGribLoaded
RouteJsonResponse(c, json) ==
  /\ ~Resumable
  /\ comp[c].pc = "routeJson"
  /\ LET parsed == parseRouteResponse(json)
         r == parsed.route
     IN IF ~parsed.ok
        THEN \* parseRouteResponse threw
             /\ comp' = [comp EXCEPT ![c].pc = "done"]
             /\ UNCHANGED <<lastRouteData, lastFiles, routeLine, playerVars, gribVars>>
        ELSE /\ lastRouteData' = <<json>>
             /\ lastFiles' = <<r.gribName, r.currentGrib>>
             /\ routeLine' = <<Len(r.pts)>>
             /\ setRouteWith(r, <<json>>)
             /\ IF pev'.err
                THEN \* setRoute threw
                     /\ comp' = [comp EXCEPT ![c].pc = "done"]
                     /\ UNCHANGED gribVars
                ELSE /\ comp' = [comp EXCEPT ![c] = [pc |-> "gribWait", route |-> r,
                                                     call |-> Len(calls) + 1]]
                     /\ EnsureSync(IF NeedReload(cache, r.gribName) THEN "force" ELSE "ensure",
                                   IF NeedReload(cache, r.gribName) THEN ForceClear(cache) ELSE cache,
                                   AppModel, r.gribName, AppOnlyUV)
                     /\ UNCHANGED <<gribLimits, dataGrib>>
                     /\ KeepOk
  /\ UNCHANGED <<wl, boat, startup, probe>>

\* the awaited forecast call has ended: with an error ("Compute error"), or
\* with { meta, field }: windLayer.set(meta, field);
\* windLayer.setRouteState({ t0Epoch, dtRoute, k: 0 }); windLayer.redraw()
ComputeResume(c) ==
  /\ comp[c].pc = "gribWait" /\ Ended(comp[c].call)
  /\ comp' = [comp EXCEPT ![c] = NoCompute]
  /\ IF ev.what = "threw"
     THEN UNCHANGED <<wl, routeState>>
     ELSE /\ wl' = [meta |-> ev.retMeta, field |-> ev.retField]
          /\ routeState' = [null |-> FALSE, t0Epoch |-> comp[c].route.t0Epoch,
                            dtRoute |-> comp[c].route.dtRoute, k |-> 0]
  /\ UNCHANGED <<route, k, playing, timer, intervals, pev>>
  /\ UNCHANGED <<lastRouteData, routeLine, boat, startup, probe, lastFiles>>
  /\ UNCHANGED gribVars

\* the bodies the routing responses of the application carry
AppRouteJsons ==
  {j \in RouteJsons : \A e \in 1..Len(j.entries) : Len(j.entries[e].track) <= MaxAppPts}

\* input on the slider; v is its value
sliderInput(v) ==
  IF lastRouteData = <<>>
  THEN \* e.target.value = 0
       UNCHANGED vars
  ELSE setIndex(v)

\* a listener the start-up registers runs: a player button or the slider
Listener ==
  \/ gotoBeg
  \/ gotoEnd
  \/ \E dir \in {0 - 1, 1} : step(dir)
  \/ togglePlay
  \/ \E v \in 0..(MaxAppPts - 1) : sliderInput(v)

NextApp ==
  \/ startPreload
  \/ preloadDone
  \/ \E c \in 1..Len(comp) : ComputeResume(c)
  \/ setStartBoat
  \/ clearWaypoints
  \/ \E v, w \in BOOLEAN : btnCompute(v, w)
  \/ \E c \in 1..Len(comp), ok \in BOOLEAN : RouteFetchResponse(c, ok)
  \/ \E c \in 1..Len(comp), j \in AppRouteJsons : RouteJsonResponse(c, j)
  \/ ~Resumable /\ startup = "ready" /\ Listener
  \/ ~Resumable /\ \E i \in (0 - 1)..MaxAppPts : setIndex(i)
  \/ ~Resumable /\ \E id \in intervals : tick(id)
  \/ ~Resumable /\ \E i \in Ids, ok \in BOOLEAN : MetaFetchResponse(i, ok)
  \/ ~Resumable /\ \E i \in Ids, b \in MetaBodies : MetaJsonResponse(i, b)
  \/ ~Resumable /\ \E i \in Ids, r \in {"http", "noHeader"} \cup Headers : BinFetchResponse(i, r)
  \/ ~Resumable /\ \E i \in Ids, len \in 0..MaxBuf : BinBodyResponse(i, len)
  \/ ~Resumable /\ \E i \in Ids : MetaAndLoadReturn(i)
  \/ ~Resumable /\ \E i \in Ids : EnsureCommit(i)
  \/ ~Resumable /\ \E i \in Ids : EnsureThrow(i)

SpecApp == Init /\ [][NextApp]_vars

(***************************************************************************)
(* Wind layer: the forecast time step drawn for an epoch                   *)
(***************************************************************************)
\* latest forecast step, in hours after the run start
MaxHour == 9

\* seconds in an hour: diffHours = (currentEpoch - epochStart) / 3600.
\* Hours are kept as whole numbers of seconds, so that diffHours is exact.
Hour == 3600

RECURSIVE Ascending(_)
\* the members of a set of numbers, in increasing order
Ascending(S) ==
  IF S = {} THEN <<>>
  ELSE LET m == CHOOSE x \in S : \A y \in S : x <= y
       IN <<m>> \o Ascending(S \ {m})

\* metadata of a forecast: its steps in hours after the run start, strictly
\* increasing and not empty, their number, and the epoch of the run start
ResolverLimits ==
  { [timeStamps |-> Ascending(S), nTimeStamp |-> Cardinality(S), epochStart |-> 1000] :
      S \in (SUBSET (0..MaxHour)) \ {{}} }

\* the epochs asked for: from one hour before the run start to one hour after
\* the latest step, every half hour
ResolverEpochs(g) == { g.epochStart + h * (Hour \div 2) : h \in (0 - 2)..(2 * MaxHour + 2) }

\* ts[i] of JavaScript (from 0), in seconds: <<>> is undefined
At(g, i) ==
  IF i \in 0..(Len(g.timeStamps) - 1) THEN <<g.timeStamps[i + 1] * Hour>> ELSE <<>>

\* a < b on numbers, false as soon as one side is NaN
Less(a, b) == a # <<>> /\ b # <<>> /\ a[1] < b[1]

\* a - b on numbers, NaN as soon as one side is undefined or NaN
Minus(a, b) == IF a = <<>> \/ b = <<>> THEN <<>> ELSE <<a[1] - b[1]>>

\* mutation of BeforeFirst: the test is dropped
BeforeFirstNever(g, t) == FALSE

\* !Number.isFinite(tHours) || tHours < ts[0]   (the epochs drawn are finite)
BeforeFirst(g, t) == Less(t, At(g, 0))

\* findTimeAround(tHours): the loop stops at the first k with
\* tHours === ts[k] or tHours < ts[k]
findTimeAround(g, t) ==
  LET n    == g.nTimeStamp
      Hits == { i \in 0..(n - 1) : t = At(g, i) \/ Less(t, At(g, i)) }
  IN IF BeforeFirst(g, t) THEN [iTInf |-> 0, iTSup |-> 0]
     ELSE IF Hits # {}
          THEN LET i == CHOOSE x \in Hits : \A y \in Hits : x <= y
               IN IF t = At(g, i) THEN [iTInf |-> i, iTSup |-> i]
                                  ELSE [iTInf |-> i - 1, iTSup |-> i]
          ELSE [iTInf |-> n - 1, iTSup |-> n - 1]

\* mutation of SupCloser: the farther of the two steps is taken
SupFarther(g, d, a) == Less(Minus(d, At(g, a.iTInf)), Minus(At(g, a.iTSup), d))

\* mutation of SupCloser: the earlier step is always kept
SupCloserNever(g, d, a) == FALSE

\* (timeStamps[iTSup] - diffHours) < (diffHours - timeStamps[iTInf])
SupCloser(g, d, a) == Less(Minus(At(g, a.iTSup), d), Minus(d, At(g, a.iTInf)))

\* getGribTimeIndexFromEpoch(currentEpoch)
getGribTimeIndexFromEpoch(g, currentEpoch) ==
  LET diffHours == <<currentEpoch - g.epochStart>>
      a         == findTimeAround(g, diffHours)
  IN IF SupCloser(g, diffHours, a) THEN a.iTSup ELSE a.iTInf

InitResolver ==
  /\ InitGrib /\ InitPlayer /\ InitApp
  /\ \E g \in ResolverLimits : \E e \in ResolverEpochs(g) :
       probe = [fn |-> "timeIndex", limits |-> g, epoch |-> e, out |-> <<>>]

\* const iTimeStamp = getGribTimeIndexFromEpoch(currentEpoch), in redraw
TimeIndexCall ==
  /\ probe.fn = "timeIndex" /\ probe.out = <<>>
  /\ probe' = [probe EXCEPT !.out = <<getGribTimeIndexFromEpoch(probe.limits, probe.epoch)>>]
  /\ UNCHANGED <<gribVars, playerVars, appVars>>

NextResolver == TimeIndexCall

SpecResolver == InitResolver /\ [][NextResolver]_vars

(***************************************************************************)
(* gribLoad: decoding of the binary answer, and the reads of the field     *)
(***************************************************************************)
\* largest nTime, nLat and nLon of a decoded forecast
MaxDim == 2

\* every X-Shortnames header of the binary answer
AllHeaders == {"uv", "uvg", "uvw", "uvgw"}

\* the nShortName of the metadata, handed to gribLoad as nName (0: none)
NameCounts == 0..4

\* new Float32Array(buf): slot j (from 0) holds the value j + 1, so that
\* every slot holds a different value and none holds 0
Buffer(len) == [j \in 1..len |-> j]

\* values[idx] of JavaScript (from 0): reading outside the buffer gives
\* undefined, written -1
ValueAt(values, idx) == IF idx \in 0..(Len(values) - 1) THEN values[idx + 1] ELSE 0 - 1

\* Number.isFinite(nName) && nName > 0 && nName !== nShortName
NameMismatch(nName, nShortName) == nName > 0 /\ nName # nShortName

\* mutation of MismatchFails: the load is given up on a mismatch
MismatchFailsAlways(mismatch) == mismatch

\* "If nName provided, just warn (do not fail)": console.warn only
MismatchFails(mismatch) == FALSE

\* gribLoad from the X-Shortnames header on: the field returned, or <<>>
\* when it throws
gribLoad(h, nTime, nLat, nLon, nName, values) ==
  LET nShortName == ComponentCount(h)
      expected   == Expected(nTime, nLat, nLon, nShortName)
  IN IF MismatchFails(NameMismatch(nName, nShortName)) \/ ~SizeOk(Len(values), expected)
     THEN <<>>
     ELSE <<[values |-> values, nLat |-> nLat, nLon |-> nLon, nTime |-> nTime,
             nShortName |-> nShortName, shortnames |-> h]>>

\* indexOf(tIndex, iLat, iLon)
indexOf(f, tIndex, iLat, iLon) ==
  (((tIndex * f.nLat) + iLat) * f.nLon + iLon) * f.nShortName

\* mutation of WaveOffset: the wave height is read from the fourth slot
WaveOffsetFixed(h) == 3

\* let offset = 2; if (hasG) { ...; offset += 1; }
WaveOffset(h) == IF HasG(h) THEN 3 ELSE 2

\* getUVGW(tIndex, iLat, iLon)
getUVGW(f, tIndex, iLat, iLon) ==
  LET idx == indexOf(f, tIndex, iLat, iLon)
  IN [u |-> ValueAt(f.values, idx),
      v |-> ValueAt(f.values, idx + 1),
      g |-> IF HasG(f.shortnames) THEN ValueAt(f.values, idx + 2) ELSE 0,
      w |-> IF HasW(f.shortnames) THEN ValueAt(f.values, idx + WaveOffset(f.shortnames)) ELSE 0]

\* the answers decoded: every header, every grid up to MaxDim, every nName,
\* and every buffer up to one value more than the grid needs
InitDecoder ==
  /\ InitGrib /\ InitPlayer /\ InitApp
  /\ \E h \in AllHeaders, nTime \in 1..MaxDim, nLat \in 1..MaxDim, nLon \in 1..MaxDim,
        nName \in NameCounts :
       \E len \in 0..(Expected(nTime, nLat, nLon, ComponentCount(h)) + 1) :
         probe = [fn |-> "gribLoad", h |-> h, nTime |-> nTime, nLat |-> nLat,
                  nLon |-> nLon, nName |-> nName, len |-> len,
                  pc |-> "load", out |-> <<>>, at |-> <<>>, read |-> <<>>]

\* gribLoad returns or throws
DecodeCall ==
  /\ probe.fn = "gribLoad" /\ probe.pc = "load"
  /\ probe' = [probe EXCEPT
       !.out = gribLoad(probe.h, probe.nTime, probe.nLat, probe.nLon, probe.nName,
                        Buffer(probe.len)),
       !.pc = "loaded"]
  /\ UNCHANGED <<gribVars, playerVars, appVars>>

\* dataGrib.getUVGW(tIndex, iLat, iLon) on the field returned
ReadCall(tIndex, iLat, iLon) ==
  /\ probe.fn = "gribLoad" /\ probe.pc = "loaded" /\ probe.out # <<>>
  /\ probe' = [probe EXCEPT !.at = <<tIndex, iLat, iLon>>,
                            !.read = <<getUVGW(probe.out[1], tIndex, iLat, iLon)>>]
  /\ UNCHANGED <<gribVars, playerVars, appVars>>

NextDecoder ==
  \/ DecodeCall
  \/ \E tIndex \in 0..(probe.nTime - 1), iLat \in 0..(probe.nLat - 1),
        iLon \in 0..(probe.nLon - 1) : ReadCall(tIndex, iLat, iLon)

SpecDecoder == InitDecoder /\ [][NextDecoder]_vars

(***************************************************************************)
(* Wind layer: one redraw pass over the candidate grid points              *)
(***************************************************************************)
\* const cellSize = 25 (px)
CellSize == 25

\* windCanvas.width and windCanvas.height, in pixels
CanvasSize == 50

\* number of grid points one pass projects to the screen
MaxCandidates == 3

\* the pixel coordinates a grid point is projected to: around the canvas
\* borders and around the borders of the cells
Pixels == {0 - 1, 0, 24, 25, 50, 51}

\* x < 0 || y < 0 || x > windCanvas.width || y > windCanvas.height
OffCanvas(x, y) == x < 0 \/ y < 0 \/ x > CanvasSize \/ y > CanvasSize

\* mutation of CellOf: every point falls into one cell of its own
CellOfPixel(x, y) == <<x, y>>

\* cx = Math.floor(x / cellSize), cy = Math.floor(y / cellSize): the key of
\* the cell
CellOf(x, y) == <<x \div CellSize, y \div CellSize>>

\* redraw has cleared the canvas: const usedCells = new Set()
InitRedraw ==
  /\ InitGrib /\ InitPlayer /\ InitApp
  /\ probe = [fn |-> "redraw", n |-> 0, usedCells |-> {}, drawn |-> {},
              at |-> <<>>, was |-> {}, drew |-> FALSE]

\* one iteration of the loops of redraw, for a grid point projected to (x, y):
\* skipped when off the canvas or when its cell is used, drawn otherwise
\* (was: the cells used before the iteration; drew: drawWindBarb was called)
Candidate(x, y) ==
  /\ probe.fn = "redraw" /\ probe.n < MaxCandidates
  /\ IF OffCanvas(x, y) \/ CellOf(x, y) \in probe.usedCells
     THEN probe' = [probe EXCEPT !.n = @ + 1, !.at = <<x, y>>, !.was = probe.usedCells,
                                 !.drew = FALSE]
     ELSE probe' = [probe EXCEPT !.n = @ + 1, !.at = <<x, y>>, !.was = probe.usedCells,
                                 !.drew = TRUE,
                                 !.usedCells = @ \cup {CellOf(x, y)},
                                 !.drawn = @ \cup {<<x, y>>}]
  /\ UNCHANGED <<gribVars, playerVars, appVars>>

NextRedraw == \E x \in Pixels, y \in Pixels : Candidate(x, y)

SpecRedraw == InitRedraw /\ [][NextRedraw]_vars

(***************************************************************************)
(* Wind layer: the glyph of one wind barb                                  *)
(***************************************************************************)
\* highest wind speed drawn, in half knots
MaxSpeed == 140

\* speeds are counted in half knots, so that the bias of 2.5 knots is a
\* whole number: x knots
Kn(x) == 2 * x

\* mutation of Bias: no bias is added
BiasNone == Kn(0)

\* speedKts += 2.5
Bias == Kn(2) + 1

\* !isFinite(speedKts) || speedKts < 2   (the speeds drawn are finite)
Calm(speedKts) == speedKts < Kn(2)

\* mag < 0.5 || !isFinite(mag): mag is the speed in m/s, speedKts / MS_TO_KN,
\* and 0.5 m/s is just under one knot
MagTooSmall(speedKts) == speedKts < Kn(1)

\* what drawWindBarb puts on the canvas for a wind of speedKts: a circle, or
\* a shaft with n50 pennants, n10 barbs and has5 half-barbs; biased is the
\* speed that was decomposed
drawWindBarb(speedKts) ==
  IF Calm(speedKts)
  THEN [circle |-> TRUE, shaft |-> FALSE, biased |-> speedKts, n50 |-> 0, n10 |-> 0, has5 |-> 0]
  ELSE IF MagTooSmall(speedKts)
  THEN [circle |-> FALSE, shaft |-> FALSE, biased |-> speedKts + Bias, n50 |-> 0, n10 |-> 0, has5 |-> 0]
  ELSE LET s         == speedKts + Bias
           n50       == s \div Kn(50)
           remainder == s - n50 * Kn(50)
           n10       == remainder \div Kn(10)
           rest      == remainder - n10 * Kn(10)
       IN [circle |-> FALSE, shaft |-> TRUE, biased |-> s, n50 |-> n50, n10 |-> n10,
           has5 |-> IF rest >= Kn(5) THEN 1 ELSE 0]

\* the winds drawn: every speed up to MaxSpeed, by half knots
InitBarb ==
  /\ InitGrib /\ InitPlayer /\ InitApp
  /\ \E speedKts \in 0..MaxSpeed :
       probe = [fn |-> "drawWindBarb", speedKts |-> speedKts, glyph |-> <<>>]

\* drawWindBarb(ctx, x, y, u, v), in redraw
BarbCall ==
  /\ probe.fn = "drawWindBarb" /\ probe.glyph = <<>>
  /\ probe' = [probe EXCEPT !.glyph = <<drawWindBarb(probe.speedKts)>>]
  /\ UNCHANGED <<gribVars, playerVars, appVars>>

NextBarb == BarbCall

SpecBarb == InitBarb /\ [][NextBarb]_vars

(***************************************************************************)
(* The route computation and the forecast cache, without the playback:     *)
(* no operation of the player reads or writes the cache                    *)
(***************************************************************************)
\* the routing responses computed: a route that names the forecast file
\* "a.grb", and the same route naming none
ComputeRouteJsons ==
  {[isObject |-> TRUE, error |-> FALSE, entries |-> <<[Entry(2, T0(2), TRUE) EXCEPT !.grib = g]>>] :
     g \in {"a.grb", ""}}

NextCompute ==
  \/ startPreload
  \/ preloadDone
  \/ \E c \in 1..Len(comp) : ComputeResume(c)
  \/ setStartBoat
  \/ \E v, w \in BOOLEAN : btnCompute(v, w)
  \/ \E c \in 1..Len(comp), ok \in BOOLEAN : RouteFetchResponse(c, ok)
  \/ \E c \in 1..Len(comp), j \in ComputeRouteJsons : RouteJsonResponse(c, j)
  \/ ~Resumable /\ \E i \in Ids, ok \in BOOLEAN : MetaFetchResponse(i, ok)
  \/ ~Resumable /\ \E i \in Ids, b \in MetaBodies : MetaJsonResponse(i, b)
  \/ ~Resumable /\ \E i \in Ids, r \in {"http", "noHeader"} \cup Headers : BinFetchResponse(i, r)
  \/ ~Resumable /\ \E i \in Ids, len \in 0..MaxBuf : BinBodyResponse(i, len)
  \/ ~Resumable /\ \E i \in Ids : MetaAndLoadReturn(i)
  \/ ~Resumable /\ \E i \in Ids : EnsureCommit(i)
  \/ ~Resumable /\ \E i \in Ids : EnsureThrow(i)

SpecCompute == Init /\ [][NextCompute]_vars

(***************************************************************************)
(* The player left to its timer: the user operates the player, then stops  *)
(* doing so, and only the ticks of the interval go on                      *)
(***************************************************************************)
InitPlayback ==
  /\ InitGrib /\ InitPlayer /\ InitApp
  /\ probe = [fn |-> "playback", user |-> TRUE]

\* the user's last operation is over: no button is pressed any more
UserLeaves ==
  /\ probe.fn = "playback" /\ probe.user
  /\ probe' = [probe EXCEPT !.user = FALSE]
  /\ UNCHANGED <<gribVars, playerVars, appVars>>

\* setInterval(tick, stepMs): the interval fires as long as it is not cancelled
Ticks == \E id \in intervals : tick(id)

NextPlayback ==
  \/ probe.user /\ \E r \in ParsedRoutes : setRoute(r)
  \/ probe.user /\ \E i \in IndexArgs : setIndex(i)
  \/ probe.user /\ gotoBeg
  \/ probe.user /\ gotoEnd
  \/ probe.user /\ \E dir \in {0 - 1, 1} : step(dir)
  \/ probe.user /\ togglePlay
  \/ probe.user /\ reset
  \/ UserLeaves
  \/ Ticks

SpecPlayback == InitPlayback /\ [][NextPlayback]_vars /\ WF_vars(Ticks)

(***************************************************************************)
(* redrawAllWaypoints: the markers are created again from appState         *)
(***************************************************************************)
\* largest number of waypoints when redrawAllWaypoints is called
MaxStartWaypoints == 3

\* length at which the waypoint list of the model stops growing (in the
\* program it grows as long as memory lasts)
MaxWaypoints == 6

\* the positions of the waypoints
Positions == {"p", "q", "r"}

\* the waypoint lists redrawAllWaypoints is called on
StartWaypoints ==
  UNION {[1..n -> Positions] : n \in 0..MaxStartWaypoints}

InitWaypoints ==
  /\ InitGrib /\ InitPlayer /\ InitApp
  /\ \E w \in StartWaypoints :
       probe = [fn |-> "redrawAllWaypoints", pc |-> "loop", before |-> w,
                waypoints |-> w, wpMarkers |-> Len(w), i |-> 0]

\* addWaypoint(lat, lon) on the list and on the markers:
\* appState.waypoints.push({ lat, lon }); wpMarkers.push(m)
addWaypoint(p, wp) ==
  [p EXCEPT !.waypoints = Append(@, wp), !.wpMarkers = @ + 1]

\* one turn of for (const wp of appState.waypoints) addWaypoint(wp.lat, wp.lon):
\* the iterator of the array compares its position with the length the array
\* has at that moment
LoopTurn ==
  /\ probe.fn = "redrawAllWaypoints" /\ probe.pc = "loop"
  /\ probe.i < Len(probe.waypoints)
  /\ Len(probe.waypoints) < MaxWaypoints
  /\ probe' = [addWaypoint(probe, probe.waypoints[probe.i + 1]) EXCEPT !.i = @ + 1]
  /\ UNCHANGED <<gribVars, playerVars, appVars>>

\* the iterator is at the end of the array: redrawAllWaypoints returns
LoopEnd ==
  /\ probe.fn = "redrawAllWaypoints" /\ probe.pc = "loop"
  /\ probe.i >= Len(probe.waypoints)
  /\ probe' = [probe EXCEPT !.pc = "returned"]
  /\ UNCHANGED <<gribVars, playerVars, appVars>>

NextWaypoints == LoopTurn \/ LoopEnd

SpecWaypoints == InitWaypoints /\ [][NextWaypoints]_vars /\ WF_vars(NextWaypoints)

(***************************************************************************)
(* Properties of the forecast cache                                        *)
(***************************************************************************)
\* the events with which an ensureGribLoaded / forceReloadGrib call returns
\* or reaches its first await
CallEvents == {"early", "hit", "noRequest", "metaReq"}

SelectionOf(r) == <<r.model, r.name, r.onlyUV>>

\* C1: at most one load is awaiting its network responses for a given
\* (model, gribName, onlyUV), whatever the interleaving of ensureGribLoaded
\* and forceReloadGrib calls.
C1_OneLoadPerKey ==
  \A i \in Ids, j \in Ids :
    (InFlight(i) /\ InFlight(j) /\ Fetching(i) /\ Fetching(j)
       /\ KeyOf(calls[i].model, calls[i].name, calls[i].onlyUV)
            = KeyOf(calls[j].model, calls[j].name, calls[j].onlyUV))
      => i = j

\* C2: an ensureGribLoaded call whose arguments are those of the last
\* successful ensureGribLoaded call, with the cache untouched in between, is
\* served from the cache (no request) and returns the same meta and field.
C2_SecondCallServedFromCache ==
  (ev.op = "ensure" /\ ev.what \in CallEvents
     /\ ev.prior.valid /\ ev.prior.op = "ensure"
     /\ SelectionOf(ev.prior) = SelectionOf(ev))
    => (ev.what = "hit" /\ ev.retMeta = ev.prior.meta /\ ev.retField = ev.prior.field)

\* C3 as stated: every forceReloadGrib call starts a metadata fetch.
C3_ForceAlwaysFetches ==
  (ev.op = "force" /\ ev.what \in CallEvents)
    => (ev.what = "metaReq" /\ calls[ev.id].pc = "metaFetch")

\* C3 amended: every forceReloadGrib call with a model or a file name starts
\* a metadata fetch and sets the loading flag, whatever the cache held.
C3_ForceFetchesSelection ==
  (ev.op = "force" /\ ev.what \in CallEvents /\ (ev.model # "" \/ ev.name # ""))
    => (ev.what = "metaReq" /\ calls[ev.id].pc = "metaFetch" /\ cache.loading)

\* a forced reload of the very key that was fully cached has sent its request
C3_Witness ==
  /\ ev.op = "force" /\ ev.what = "metaReq"
  /\ calls[ev.id].before.key = KeyOf(ev.model, ev.name, ev.onlyUV)
  /\ calls[ev.id].before.field.kind = "field"

\* C4: an ensureGribLoaded call made while the loading flag is set returns
\* the cached meta and field at once, sends no request and changes neither
\* the cache nor the invocations under way; a load that then resumes with
\* its decoded field commits it.
C4_EarlyReturn ==
  [][ /\ (cache.loading /\ Len(calls') = Len(calls) + 1 /\ ev'.op = "ensure")
          => /\ ev'.what = "early"
             /\ ev'.retMeta = cache.meta /\ ev'.retField = cache.field
             /\ cache' = cache /\ gribLimits' = gribLimits /\ dataGrib' = dataGrib
             /\ calls' = Append(calls, NoCall)
      /\ \A i \in Ids :
           (Len(calls') = Len(calls) /\ calls[i].pc = "resume" /\ calls'[i].pc = "done")
             => (cache'.field = calls[i].field /\ cache'.meta = "gribLimits")
    ]_vars

\* an ensureGribLoaded call has just returned early while a load awaits a response
C4_Witness ==
  /\ ev.op = "ensure" /\ ev.what = "early"
  /\ \E j \in Ids : InFlight(j) /\ Fetching(j)

\* C5: a load that ends, normally or by a throw, leaves the loading flag
\* false; when no load is under way the loading flag is false.
C5_LoadingCleared ==
  /\ []((\A i \in Ids : ~InFlight(i)) => ~cache.loading)
  /\ [][\A i \in Ids :
          (Len(calls') = Len(calls) /\ InFlight(i) /\ calls'[i].pc = "done")
            => ~cache'.loading]_vars

\* a load has just ended by a throw and none is under way
C5_Witness ==
  /\ ev.what = "threw"
  /\ ~cache.loading
  /\ \A i \in Ids : ~InFlight(i)

\* C6: when an ensureGribLoaded call that ran alone ends by a throw, the cache key, the
\* contents of the cached meta and the cached field are what they were when
\* the call was made.
C6_FailedLoadLeavesEntry ==
  [][\A i \in Ids :
       (Len(calls') = Len(calls) /\ calls[i].op = "ensure"
          /\ calls[i].pc = "rejected" /\ calls'[i].pc = "done" /\ calls[i].alone)
         => ViewOf(cache', gribLimits') = calls[i].before]_vars

\* C7: no step of gribInfo changes the cache key, the contents of the cached
\* meta or the cached field.
C7_InfoLeavesEntry ==
  [][ev'.op = "info" => ViewOf(cache', gribLimits') = ViewOf(cache, gribLimits)]_vars

\* the order of the steps of a load: each pair is (position, next position)
LoadOrder ==
  {<<"metaFetch", "metaJson">>, <<"metaJson", "binFetch">>,
   <<"binFetch", "binBody">>, <<"binBody", "decoded">>,
   <<"decoded", "resume">>, <<"resume", "done">>,
   <<"metaFetch", "rejected">>, <<"metaJson", "rejected">>,
   <<"binFetch", "rejected">>, <<"binBody", "rejected">>,
   <<"rejected", "done">>}

C9_CommitUnguarded ==
  [][\A i \in Ids :
       (Len(calls') = Len(calls) /\ calls[i].pc = "resume" /\ calls'[i].pc = "done"
          /\ cache.field.kind = "field" /\ cache.field.id > i)
         => /\ cache'.field = calls[i].field
            /\ cache'.meta = "gribLimits"
            /\ cache'.key = KeyOf(calls[i].model, RealName("gribLimits", calls[i].name),
                                  calls[i].onlyUV)
    ]_vars

\* a load started before a forceReloadGrib call has just committed over the
\* result of the forced load, which had completed
C9_StaleOverwrite ==
  /\ ev.what = "commit"
  /\ ev.prior.valid /\ ev.prior.op = "force"
  /\ ev.prior.field.id > ev.id
  /\ cache.field.kind = "field" /\ cache.field.id = ev.id

(***************************************************************************)
(* Properties of the player                                                *)
(***************************************************************************)
\* C10: with a route attached the index is within 0 .. route.pts.length - 1,
\* and right after setRoute it is 0.
C10_IndexInRange ==
  /\ ~route.null => (k \in Int /\ 0 <= k /\ k <= Len(route.pts) - 1)
  /\ pev.op = "setRoute" => k = 0

\* setIndex was called with an index beyond the end and clamped it
C10_Witness ==
  /\ ~route.null
  /\ pev.op = "setIndex" /\ pev.arg > Len(route.pts) - 1
  /\ k = Len(route.pts) - 1

(***************************************************************************)
(* Properties of the player                                                *)
(***************************************************************************)
\* the last index of route r
Last(r) == Len(r.pts) - 1

\* what update() publishes for route r at index kk
StateOf(r, kk) == [null |-> FALSE, t0Epoch |-> r.t0Epoch, dtRoute |-> r.dtRoute, k |-> kk]

\* C11: right after setRoute, from any state, the player is Stopped with no
\* tick timer scheduled, its index is 0 and the route state of the new route
\* with k = 0 is the one published to the renderer.
C11_AttachLeavesStopped ==
  pev.op = "setRoute" =>
    /\ ~playing /\ timer = 0 /\ intervals = {}
    /\ k = 0
    /\ routeState = StateOf(route, 0)

\* C12: with a route attached step(+1) and step(-1) move the index by one,
\* except step(+1) at the last index and step(-1) at index 0 which leave it;
\* in both Playing and Stopped, step leaves playing, the timer and the
\* scheduled intervals as they are.
C12_StepByOne ==
  [][\A dir \in {0 - 1, 1} :
       (step(dir) /\ ~route.null) =>
         /\ k' = IF dir = 1 THEN (IF k = Last(route) THEN k ELSE k + 1)
                            ELSE (IF k = 0 THEN k ELSE k - 1)
         /\ UNCHANGED <<playing, timer, intervals>>]_vars

\* step(+1) was called while Playing at the last index of a route of at least
\* two points, and left the index and the Playing state
C12_Witness ==
  /\ ~route.null /\ Len(route.pts) >= 2
  /\ pev.op = "step" /\ pev.arg = 1 /\ pev.was
  /\ pev.k0 = Last(route) /\ k = Last(route)
  /\ playing /\ timer \in intervals

\* C13: play() from Stopped with a route attached makes the player Playing
\* and schedules one interval, the only one; play() while Playing or with no
\* route changes neither the state, the index, the timer nor the intervals.
\* At any time at most one interval is scheduled, and it is the player's.
C13_PlayStartsOneTimer ==
  /\ [][play =>
          IF ~route.null /\ ~playing
          THEN /\ playing' /\ timer' # 0 /\ intervals' = {timer'}
               /\ UNCHANGED <<k, route>>
          ELSE UNCHANGED <<playing, k, timer, intervals, route>>]_vars
  /\ [](intervals = IF playing THEN {timer} ELSE {})
  /\ [](playing <=> timer # 0)

\* play() was called while already Playing
C13_Witness ==
  /\ pev.op = "play" /\ pev.was
  /\ playing /\ intervals = {timer} /\ ~route.null

\* C14: a tick while Playing with the index below the last one advances it by
\* one and stays Playing; a tick while Playing at the last index leaves the
\* index and stops the player, cancelling its interval.
C14_TickAdvancesOrStops ==
  [][\A id \in intervals :
       (tick(id) /\ playing /\ ~route.null) =>
         IF k < Last(route)
         THEN k' = k + 1 /\ playing' /\ UNCHANGED <<timer, intervals>>
         ELSE k' = k /\ ~playing' /\ timer' = 0 /\ intervals' = {}]_vars

\* a tick found the index at the last position of a route of at least two
\* points and stopped the player
C14_Witness ==
  /\ pev.op = "tick" /\ pev.was /\ ~pev.pub
  /\ ~route.null /\ Len(route.pts) >= 2 /\ k = Last(route) /\ pev.k0 = k
  /\ ~playing /\ intervals = {}

\* C15: a tick only ever advances the index by one, and the tick that brings
\* the index to the last position also stops the player: right after an
\* advancing tick the player is not Playing at the last index.
C15_StopsOnReachingEnd ==
  (pev.op = "tick" /\ pev.pub) =>
    /\ k = pev.k0 + 1
    /\ (k = Last(route) => ~playing)

\* C15, as the code has it: every advancing tick moves the index by one and
\* leaves the player Playing, also when it brings the index to the last
\* position; the player stops at the next tick, which finds the index at the
\* last position and does not move it.
C15_StopsAtTickAfterEnd ==
  (pev.op = "tick" /\ pev.was /\ ~route.null) =>
    IF pev.pub
    THEN k = pev.k0 + 1 /\ pev.k0 < Last(route) /\ playing
    ELSE k = pev.k0 /\ k = Last(route) /\ ~playing

\* ticks have brought the index from 0 to the last position of a route of
\* three points and the player is still Playing
C15_Witness ==
  /\ pev.op = "tick" /\ pev.pub /\ pev.was
  /\ Len(route.pts) >= 3 /\ k = Last(route) /\ pev.k0 = k - 1
  /\ playing /\ timer \in intervals

\* C16: while the player is Stopped no interval is scheduled, so no tick can
\* fire and change the index, whichever operation stopped it; the only
\* operations that schedule an interval are play and togglePlay.
C16_StoppedHasNoTick ==
  /\ [](~playing => intervals = {} /\ timer = 0)
  /\ [][(\E id \in intervals : tick(id)) => playing]_vars
  /\ [][intervals' \ intervals # {} => (play \/ togglePlay)]_vars

\* the player was stopped at the beginning of the route by gotoBeg while it
\* was Playing further on
C16_Witness ==
  /\ pev.op = "gotoBeg" /\ pev.was /\ pev.k0 > 0
  /\ ~playing /\ intervals = {} /\ k = 0

\* C17: with a route attached setIndex(i) sets the index to i when i is
\* within 0 .. last, to 0 when i is negative and to last when i is beyond it,
\* without raising an error and without touching playing, the timer or the
\* scheduled intervals; with no route attached it changes nothing.
C17_SetIndexClamps ==
  [][\A i \in IndexArgs :
       setIndex(i) =>
         IF route.null
         THEN UNCHANGED <<route, k, playing, timer, intervals, routeState>>
         ELSE /\ k' = IF i < 0 THEN 0 ELSE IF i > Last(route) THEN Last(route) ELSE i
              /\ ~pev'.err
              /\ UNCHANGED <<route, playing, timer, intervals>>]_vars

\* while Playing on a computed route of two points, setIndex was called with
\* an index beyond the end: it clamped it and raised nothing
C17_Witness ==
  /\ ~route.null /\ Len(route.pts) >= 2 /\ lastRouteData # <<>>
  /\ pev.op = "setIndex" /\ pev.arg > Last(route) /\ pev.k0 = 0
  /\ k = Last(route) /\ ~pev.err
  /\ pev.was /\ playing /\ intervals = {timer}

\* C18: reset leaves the player Stopped with no interval, no route and index
\* 0; as long as no route is attached no operation changes the index, the
\* Playing/Stopped state, the timer or what was published to the renderer.
C18_ResetDetaches ==
  /\ [](pev.op = "reset" =>
          route.null /\ ~playing /\ timer = 0 /\ intervals = {} /\ k = 0)
  /\ [][(route.null /\ route'.null) =>
          /\ UNCHANGED <<k, playing, timer, intervals, routeState>>
          /\ ~pev'.pub]_vars

\* togglePlay was called with no route attached, after the route whose index
\* had been published was detached
C18_Witness ==
  /\ pev.op = "togglePlay" /\ route.null /\ ~playing /\ intervals = {}
  /\ ~routeState.null /\ routeState.k > 0

\* C19: every player operation that ran update() with a route attached has
\* published the route's start, its step and the player's index, and every
\* operation that changed the index with a route attached ran update().
C19_IndexPublished ==
  /\ pev.pub => (~route.null /\ routeState = StateOf(route, k))
  /\ (~route.null /\ pev.op # "init" /\ k # pev.k0) => pev.pub

\* an advancing tick has published the new index
C19_Witness ==
  /\ pev.op = "tick" /\ pev.pub /\ k = pev.k0 + 1
  /\ routeState = StateOf(route, k) /\ k >= 2

\* C20: setStartBoat and clearWaypoints each leave the player with no route
\* and Stopped with no interval scheduled, the wind layer's route state null,
\* lastRouteData null and no route polyline on the map.
C20_ClearingClearsRouteState ==
  [][(setStartBoat \/ clearWaypoints) =>
       /\ route'.null /\ k' = 0
       /\ ~playing' /\ timer' = 0 /\ intervals' = {}
       /\ routeState'.null
       /\ lastRouteData' = <<>>
       /\ routeLine' = <<>>]_vars

\* the route state was cleared while the player was Playing a computed route
\* past its first point
C20_Witness ==
  /\ pev.op = "reset" /\ pev.was /\ pev.k0 > 0
  /\ route.null /\ ~playing /\ intervals = {}
  /\ routeState.null /\ lastRouteData = <<>> /\ routeLine = <<>>
  /\ startup = "ready" /\ boat

(***************************************************************************)
(* Properties of the wind layer's time step                                *)
(***************************************************************************)
\* the time index has been resolved
Resolved == probe.fn = "timeIndex" /\ probe.out # <<>>

\* the offset of the epoch asked for from the run start, in seconds
Offset == probe.epoch - probe.limits.epochStart

\* the i-th forecast step (from 1), in seconds after the run start
StepAt(i) == probe.limits.timeStamps[i] * Hour

\* number of forecast steps
NSteps == Len(probe.limits.timeStamps)

\* C21: for a strictly increasing step list and a run start E, the index
\* resolved for an epoch is 0 when the offset is at or before the first step,
\* the last index when it is at or after the last step, and i when the offset
\* equals step i.
C21_EndsAndExactMatch ==
  Resolved =>
    /\ Offset <= StepAt(1) => probe.out = <<0>>
    /\ Offset >= StepAt(NSteps) => probe.out = <<NSteps - 1>>
    /\ \A i \in 1..NSteps : Offset = StepAt(i) => probe.out = <<i - 1>>

\* an epoch before the first of several steps has been resolved to index 0
C21_Witness ==
  /\ Resolved /\ NSteps >= 2
  /\ Offset < StepAt(1)
  /\ probe.out = <<0>>

\* C22: when the offset lies strictly between two consecutive steps and is
\* not equidistant from them, the index resolved is that of the closer step;
\* with steps [0, 3, 6, 9] and the epoch E + 4 * 3600 the index is 1.
C22_CloserStep ==
  Resolved =>
    \A i \in 1..(NSteps - 1) :
      (StepAt(i) < Offset /\ Offset < StepAt(i + 1)
         /\ Offset - StepAt(i) # StepAt(i + 1) - Offset)
      => probe.out = <<IF Offset - StepAt(i) < StepAt(i + 1) - Offset THEN i - 1 ELSE i>>

\* steps [0, 3, 6, 9] and the epoch E + 4 * 3600 have been resolved to index 1
C22_Witness ==
  /\ Resolved
  /\ probe.limits.timeStamps = <<0, 3, 6, 9>>
  /\ Offset = 4 * Hour
  /\ probe.out = <<1>>

\* C23: when the offset is exactly half way between two consecutive steps,
\* the index resolved is the later of the two.
C23_TieGivesLater ==
  Resolved =>
    \A i \in 1..(NSteps - 1) :
      (StepAt(i) < Offset /\ Offset - StepAt(i) = StepAt(i + 1) - Offset)
      => probe.out = <<i>>

(***************************************************************************)
(* Properties of the decoder                                               *)
(***************************************************************************)
\* gribLoad has returned a field
Decoded == probe.fn = "gribLoad" /\ probe.pc = "loaded" /\ probe.out # <<>>

\* gribLoad has thrown
DecodeThrew == probe.fn = "gribLoad" /\ probe.pc = "loaded" /\ probe.out = <<>>

\* the header names the gust, the wave height
Gust == probe.h \in {"uvg", "uvgw"}
Wave == probe.h \in {"uvw", "uvgw"}

\* two, and one more for each of the gust and the wave height
Components == 2 + (IF Gust THEN 1 ELSE 0) + (IF Wave THEN 1 ELSE 0)

\* C24: for every header in {uv, uvg, uvw, uvgw} and a buffer of exactly
\* nTime*nLat*nLon*componentCount values, getUVGW(t, iLat, iLon) returns
\* u = values[o], v = values[o+1], g = values[o+2] when the gust is present
\* and 0 otherwise, w = the slot right after the last present one of v and g
\* when the wave height is present and 0 otherwise, with
\* o = ((t*nLat + iLat)*nLon + iLon)*componentCount; no slot read lies
\* outside the buffer.
C24_ReadsItsOwnSlots ==
  (Decoded /\ probe.read # <<>>) =>
    LET r == probe.read[1]
        o == ((probe.at[1] * probe.nLat + probe.at[2]) * probe.nLon + probe.at[3]) * Components
        values == probe.out[1].values
    IN /\ o >= 0 /\ o + Components <= Len(values)
       /\ r.u = values[o + 1]
       /\ r.v = values[o + 2]
       /\ r.g = IF Gust THEN values[o + 3] ELSE 0
       /\ r.w = IF Wave THEN values[o + Components] ELSE 0

\* the last point of a two-step grid with the header uvw has been read
C24_Witness ==
  /\ Decoded /\ probe.read # <<>>
  /\ probe.h = "uvw" /\ probe.nTime = 2
  /\ probe.at = <<probe.nTime - 1, probe.nLat - 1, probe.nLon - 1>>
  /\ probe.read[1].w = probe.len

\* a field lies over a buffer of exactly the size its grid needs
Fits(f) == f.kind = "field" => f.nValues = f.nTime * f.nLat * f.nLon * f.nShortName

\* C25: when the number of decoded values differs from the expected number,
\* gribLoad fails: no field over a buffer of another size than its grid needs
\* is ever returned, stored in the cache or handed to the renderer.
C25_NoFieldOverMismatchingBuffer ==
  /\ \A i \in Ids : Fits(calls[i].field)
  /\ Fits(ev.retField)
  /\ Fits(dataGrib)
  /\ Fits(cache.field)
  /\ Fits(wl.field)

\* a load has just failed on the size of its buffer, and the cache does not
\* hold a field of that load
C25_Witness ==
  /\ ev.what = "binSizeError"
  /\ calls[ev.id].field.kind # "field"
  /\ cache.field.id # ev.id

\* C26: the component count is 2, plus one for the gust and one for the wave
\* height, whatever nShortName the metadata gives: it is the count the size
\* of the buffer is checked against and the count the field is indexed with,
\* and a metadata nShortName that differs from it does not make the load fail.
C26_CountFromHeader ==
  /\ Components \in 2..4
  /\ Decoded => /\ probe.out[1].nShortName = Components
                /\ indexOf(probe.out[1], 0, 0, 1) = Components
  /\ (probe.fn = "gribLoad" /\ probe.pc = "loaded")
       => (DecodeThrew <=> probe.len # probe.nTime * probe.nLat * probe.nLon * Components)

\* a load has succeeded although the metadata gave another nShortName
C26_Witness ==
  /\ Decoded
  /\ probe.nName > 0 /\ probe.nName # Components
  /\ probe.out[1].nShortName = Components

(***************************************************************************)
(* Properties of the route computation                                     *)
(***************************************************************************)
\* the file name in the key of the cache, "" when the key is null
CachedFile == IF cache.key = <<>> THEN "" ELSE cache.key[3]

\* C27: computeRouteAndWind calls forceReloadGrib exactly when the route
\* response names a forecast file, the key of the cache names one too, and
\* the two differ; otherwise it calls ensureGribLoaded. When the route's file
\* is the cached one and neither the model nor the onlyUV flag changed, the
\* call issues no metadata and no binary request.
C27_ReloadOnlyOnNewFile ==
  [][\A c \in 1..Len(comp) :
       (comp[c].pc = "routeJson" /\ comp'[c].pc = "gribWait")
       => LET file == comp'[c].route.gribName
          IN /\ ev'.id = comp'[c].call
             /\ ev'.op = IF file # "" /\ CachedFile # "" /\ CachedFile # file
                         THEN "force" ELSE "ensure"
             /\ (cache.key # <<>> /\ file = CachedFile /\ cache.key[1] = AppModel
                   /\ cache.key[5] = (IF AppOnlyUV THEN "1" ELSE "0"))
                => /\ ev'.what \in {"hit", "early"}
                   /\ calls'[ev'.id].pc = "done"
                   /\ \A i \in Ids : calls'[i] = calls[i]]_vars

\* a route computation awaits the forced reload of the file its route names,
\* which is not the file the cache held
C27_Witness ==
  \E c \in 1..Len(comp) :
    /\ comp[c].pc = "gribWait" /\ comp[c].call = ev.id
    /\ ev.op = "force" /\ ev.what = "metaReq"
    /\ comp[c].route.gribName = "a.grb"
    /\ calls[ev.id].before.key # <<>> /\ calls[ev.id].before.key[3] = "b.grb"

\* no operation is under way: the start-up is not awaiting its preload, every
\* route computation and every forecast call has ended
Quiescent ==
  /\ startup # "preload"
  /\ \A c \in 1..Len(comp) : comp[c].pc = "done"
  /\ \A i \in Ids : calls[i].pc = "done"

\* C30: whenever no operation is under way, the route state of the renderer
\* is in lock-step with the player: null when the player has no route, and
\* otherwise the start epoch and the time step of the attached route with the
\* current index of the player.
C30_RouteStateInLockStep ==
  Quiescent =>
    IF route.null THEN routeState.null ELSE routeState = StateOf(route, k)

(***************************************************************************)
(* Properties of the wind layer's drawing                                  *)
(***************************************************************************)
\* the candidate of the last iteration has been drawn
DrawnNow == probe.at # <<>> /\ probe.drew /\ probe.at \in probe.drawn

\* the 25-pixel bucket of a point
Bucket(p) == <<p[1] \div 25, p[2] \div 25>>

\* the candidate of the last iteration was drawn exactly when no candidate
\* drawn earlier in the pass has its bucket
DrawnIffBucketFree ==
  (probe.fn = "redraw" /\ probe.at # <<>> /\ ~OffCanvas(probe.at[1], probe.at[2]))
    => (DrawnNow <=> Bucket(probe.at) \notin probe.was)

\* C28: within one redraw pass a candidate is drawn only if its 25-pixel
\* bucket (floor(x/25), floor(y/25)) was not used earlier in the pass, and no
\* two glyphs drawn in the same pass are closer to each other than one bucket
\* (25 pixels).
C28_NoTwoGlyphsWithin25Pixels ==
  /\ DrawnIffBucketFree
  /\ probe.fn = "redraw" =>
       \A p, q \in probe.drawn :
         p # q => (p[1] - q[1]) * (p[1] - q[1]) + (p[2] - q[2]) * (p[2] - q[2]) >= 25 * 25

\* C28 (amended): within one redraw pass a candidate on the canvas is drawn
\* exactly when its 25-pixel bucket was not used earlier in the pass, so that
\* no two glyphs drawn in the same pass lie in the same bucket.
C28_OneGlyphPerBucket ==
  /\ DrawnIffBucketFree
  /\ probe.fn = "redraw" =>
       /\ \A p, q \in probe.drawn : p # q => Bucket(p) # Bucket(q)
       /\ probe.usedCells = {Bucket(p) : p \in probe.drawn}

\* a candidate has been skipped because its bucket was used, and two glyphs
\* of neighbouring buckets have been drawn one pixel apart
C28_Witness ==
  /\ probe.fn = "redraw" /\ probe.at # <<>>
  /\ ~OffCanvas(probe.at[1], probe.at[2]) /\ ~DrawnNow
  /\ {<<24, 0>>, <<25, 0>>} \subseteq probe.drawn

\* a glyph has been drawn
Glyph == probe.fn = "drawWindBarb" /\ probe.glyph # <<>>

\* the glyph drawn is a circle and nothing else
OnlyCircle ==
  LET g == probe.glyph[1]
  IN g.circle /\ ~g.shaft /\ g.n50 = 0 /\ g.n10 = 0 /\ g.has5 = 0

\* the glyph drawn has a shaft, and the pennants, barbs and half-barb of the
\* speed s (in half knots)
Decomposes(s) ==
  LET g == probe.glyph[1]
  IN /\ g.shaft /\ ~g.circle
     /\ g.n50 = s \div 100
     /\ g.n10 = (s - 100 * g.n50) \div 20
     /\ 0 <= g.n10 /\ g.n10 <= 4
     /\ g.has5 \in {0, 1}
     /\ g.has5 = 1 <=> s - 100 * g.n50 - 20 * g.n10 >= 10

\* the glyph drawn has one pennant, one barb and as many half-barbs as said
OnePennantOneBarb(halves) ==
  LET g == probe.glyph[1]
  IN g.n50 = 1 /\ g.n10 = 1 /\ g.has5 = halves

\* C29: for a wind of at least 2 knots the glyph has a shaft and the biased
\* speed s is decomposed into n50 = floor(s/50) pennants, n10 =
\* floor((s - 50 n50)/10) barbs with 0 <= n10 <= 4, and one half-barb exactly
\* when the remainder is at least 5; a biased speed s = 63 gives exactly one
\* pennant, one barb and one half-barb; under 2 knots only a circle is drawn.
C29_BiasedSpeed63HasHalfBarb ==
  Glyph =>
    /\ probe.speedKts >= 2 * 2 => Decomposes(probe.glyph[1].biased)
    /\ (probe.speedKts >= 2 * 2 /\ probe.glyph[1].biased = 2 * 63) => OnePennantOneBarb(1)
    /\ probe.speedKts < 2 * 2 => OnlyCircle

\* C29 (amended): as above, with the speed after the bias of 2.5 knots as s;
\* a wind of 63 knots, 65.5 after the bias, gives exactly one pennant, one
\* barb and one half-barb, and a biased speed of 63 knots gives one pennant,
\* one barb and no half-barb.
C29_Speed63HasHalfBarb ==
  Glyph =>
    /\ probe.speedKts >= 2 * 2 => /\ probe.glyph[1].biased = probe.speedKts + 5
                                  /\ Decomposes(probe.speedKts + 5)
    /\ probe.speedKts = 2 * 63 => OnePennantOneBarb(1)
    /\ probe.speedKts + 5 = 2 * 63 => OnePennantOneBarb(0)
    /\ probe.speedKts < 2 * 2 => OnlyCircle

\* the glyph of a wind of 63 knots has been drawn
C29_Witness ==
  /\ Glyph /\ probe.speedKts = 2 * 63
  /\ probe.glyph[1].shaft /\ OnePennantOneBarb(1)

(***************************************************************************)
(* Properties of the cache under interleaved calls                         *)
(***************************************************************************)
\* C31: whenever the loading flag of the cache is false and the cached field
\* is not null, the cached meta and field agree in dimensions
\* (field.nTime = meta.nTimeStamp, field.nLat = meta.nLat,
\* field.nLon = meta.nLon), after any interleaving of ensureGribLoaded,
\* forceReloadGrib and gribInfo calls and their responses.
C31_MetaAndFieldAgree ==
  (~cache.loading /\ cache.field.kind = "field") =>
    /\ CacheView.meta.nTimeStamp = cache.field.nTime
    /\ CacheView.meta.nLat = cache.field.nLat
    /\ CacheView.meta.nLon = cache.field.nLon

\* C32: the loading flag of the cache is true in every state in which a load
\* started by ensureGribLoaded, directly or through forceReloadGrib, has not
\* finished; so an ensureGribLoaded call that arrives while a request of a
\* load is outstanding returns early and starts no request.
C32_LoadingWhileAnyLoad ==
  /\ (\E i \in Ids : InFlight(i)) => cache.loading
  /\ (ev.op = "ensure" /\ ev.what \in CallEvents
        /\ \E j \in Ids : j # ev.id /\ InFlight(j) /\ Fetching(j))
     => ev.what = "early"

(***************************************************************************)
(* Properties of the player in every state                                 *)
(***************************************************************************)
\* C33: in every reachable state the player is Playing if and only if
\* exactly one tick timer is scheduled (never two timers, never a timer while
\* Stopped), and Playing implies that a route is attached.
C33_PlayingIffOneTimer ==
  /\ playing <=> Cardinality(intervals) = 1
  /\ Cardinality(intervals) <= 1
  /\ ~playing => (intervals = {} /\ timer = 0)
  /\ playing => (intervals = {timer} /\ timer # 0)
  /\ playing => ~route.null

\* the player is Playing on a route, with its one timer scheduled
C33_Witness ==
  /\ playing /\ ~route.null
  /\ intervals = {timer} /\ timer # 0
  /\ pev.op = "tick"

\* the user has stopped operating the player
LeftAlone == probe.fn = "playback" /\ ~probe.user

\* C34: if the player is Playing on a route with N points and no user
\* operation occurs afterwards (only ticks of the timer, which is weakly
\* fair), the player eventually becomes Stopped with index N-1, and from then
\* on the index and the state never change.
C34_PlaysToTheEnd ==
  /\ (LeftAlone /\ playing /\ ~route.null) ~> (~playing /\ k = Last(route))
  /\ [][(LeftAlone /\ ~playing) => (~playing' /\ k' = k)]_vars

\* left to its timer, the player has stopped at the last point of a route of
\* several points
C34_Witness ==
  /\ LeftAlone /\ ~route.null /\ Len(route.pts) >= 2
  /\ pev.op = "tick" /\ pev.was
  /\ ~playing /\ k = Last(route)

(***************************************************************************)
(* Properties of the route computation under interleaved operations        *)
(***************************************************************************)
\* C35: after setStartBoat or clearWaypoints has cleared the route, the
\* player has no attached route and the route state of the renderer stays
\* null until a route computation started after the clearing completes: a
\* computeRouteAndWind call that was under way when the clearing happened
\* does not attach its route when its response arrives. (Every computation
\* started after the clearing begins with player.gotoBeg, so that as long as
\* the last operation on the player is the reset of the clearing, the
\* computations under way were started before it.)
C35_ClearingCancelsComputation ==
  [][(pev.op = "reset" /\ route.null /\ routeState.null)
       => (route'.null /\ routeState'.null)]_vars

\* a routing response parseRouteResponse rejects: not an object, with an
\* _Error, without an entry that has a non-empty track, or with an epochStart
\* or an isocTimeStep that is not a finite number in the first such entry
Rejected(json) ==
  \/ ~json.isObject
  \/ json.error
  \/ \A e \in 1..Len(json.entries) : Len(json.entries[e].track) = 0
  \/ \E e \in 1..Len(json.entries) :
       /\ Len(json.entries[e].track) > 0
       /\ \A d \in 1..(e - 1) : Len(json.entries[d].track) = 0
       /\ ~json.entries[e].finite

\* computeRouteAndWind c ends on a routing answer that is not a success, or
\* on a routing response that is rejected
RoutingFails(c) ==
  \/ comp[c].pc = "routeFetch" /\ comp'[c].pc = "done"
  \/ \E json \in AppRouteJsons : Rejected(json) /\ RouteJsonResponse(c, json)

\* C36: when the routing request returns a non-success status, or the
\* response is rejected by parseRouteResponse, computeRouteAndWind throws and
\* leaves lastRouteData, lastGribFile, lastCurrentGribFile, the route and the
\* index of the player, the forecast cache and the meta, field and route
\* state of the renderer unchanged, and sends no forecast request.
C36_FailedRoutingChangesNothing ==
  [][\A c \in 1..Len(comp) :
       RoutingFails(c)
       => /\ comp'[c].pc = "done"
          /\ UNCHANGED <<lastRouteData, lastFiles, route, k, cache, gribLimits, dataGrib,
                         wl, routeState, calls>>]_vars

\* a route computation has ended on a failed routing: the last operation on
\* the player is its gotoBeg, nothing is attached or stored, and the only
\* forecast call made is the preload of the start-up
C36_Witness ==
  /\ Len(comp) = 1 /\ comp[1].pc = "done"
  /\ pev.op = "gotoBeg"
  /\ lastRouteData = <<>> /\ lastFiles = <<"", "">> /\ route.null /\ routeState.null
  /\ Len(calls) = 1

\* C37: an ensureGribLoaded call made while no load is in progress either
\* throws or returns a meta that is not null together with a field that has
\* a sampling operation, and stores exactly that pair in the cache; it never
\* returns normally with an undefined meta or field, and it never replaces a
\* populated entry of the cache by an empty one, also when both the model and
\* the file name are empty.
C37_ReturnsALoadedPair ==
  /\ (ev.op = "ensure" /\ ev.what \in {"hit", "commit", "commitFalse"})
       => /\ ev.retMeta \notin {"null", "undefined"}
          /\ ev.retField.kind = "field"
          /\ cache.meta = ev.retMeta /\ cache.field = ev.retField
  /\ [][(cache.field.kind = "field" /\ ev'.op = "ensure"
           /\ ev'.what \in {"hit", "commit", "commitFalse"})
        => cache'.field.kind = "field"]_vars

(***************************************************************************)
(* Relations between the time steps of several epochs                      *)
(***************************************************************************)
\* the index the wind layer resolves for the epoch e, with the metadata of
\* the call under examination
IndexOfEpoch(e) == getGribTimeIndexFromEpoch(probe.limits, e)

\* C38: for a strictly increasing step list, the index returned by
\* getGribTimeIndexFromEpoch lies in [0, nTimeStamp - 1] and is monotone
\* non-decreasing in the epoch: e1 <= e2 implies index(e1) <= index(e2).
C38_InRangeAndMonotone ==
  Resolved =>
    /\ probe.out[1] \in 0..(probe.limits.nTimeStamp - 1)
    /\ \A e \in ResolverEpochs(probe.limits) :
         /\ e <= probe.epoch => IndexOfEpoch(e) <= probe.out[1]
         /\ e >= probe.epoch => IndexOfEpoch(e) >= probe.out[1]

\* an epoch between the steps of a list of three has been resolved to the
\* middle step, with earlier epochs resolved to the first step and later ones
\* to the last
C38_Witness ==
  /\ Resolved /\ NSteps = 3
  /\ probe.out = <<1>>
  /\ Offset > StepAt(1) /\ Offset < StepAt(3) /\ Offset # StepAt(2)
  /\ \E e1, e2 \in ResolverEpochs(probe.limits) :
       e1 < probe.epoch /\ probe.epoch < e2 /\ IndexOfEpoch(e1) = 0 /\ IndexOfEpoch(e2) = 2

(***************************************************************************)
(* Properties of redrawAllWaypoints                                        *)
(***************************************************************************)
\* C39: redrawAllWaypoints terminates for every finite waypoint list in
\* appState.waypoints, and when it returns appState.waypoints holds the same
\* waypoints as before the call.
C39_RedrawTerminatesAndKeepsWaypoints ==
  /\ <>(probe.fn = "redrawAllWaypoints" /\ probe.pc = "returned")
  /\ [](probe.pc = "returned" => probe.waypoints = probe.before)

====
